---- MODULE Spec2Model ----
(***************************************************************************)
(* A model of the lock logger PWA (src/service-worker.js): the Document    *)
(* held by the App component (lockables, entries, prefs), its mutation     *)
(* handlers, the import/export of JSON files, the share chain, the streak  *)
(* computation and the history filter; and of the service worker of the    *)
(* same file: its cache generations, its lifecycle and its fetch handler.  *)
(*                                                                         *)
(* JavaScript values are tagged records, so that a field may hold a        *)
(* string, a number, null or undefined as it does in the program.          *)
(* Instants are milliseconds since the epoch; the clock of the model runs  *)
(* over the first days of 1970, in steps of half a day, and the local time *)
(* zone is UTC without daylight saving.                                    *)
(***************************************************************************)
EXTENDS Integers, Sequences, FiniteSets, TLC

VARIABLES
    state,      \* the Document held by useLocalStorage's useState
    stored,     \* localStorage['lockLoggerData']
    storageFull, \* localStorage.setItem throws (quota exceeded, storage disabled)
    now,        \* the host's clock, ms since the epoch
    dialog,     \* what the last handler showed with alert() (NoDialog if nothing)
    reader,     \* the FileReader of importData: the file being read, if any
    download,   \* the text of the last file exportData offered for download
    ops,        \* the handlers run so far, in order
    prev,       \* the Document before the handler that ran last
    recorded,   \* every entry recordEntry created, oldest first
    shareRun,   \* shareLast's promise chain: position, capabilities, outcome
    streakRun,  \* the streak computation of the current render
    queue,      \* the updaters passed to setState since the last render, in order
    filter,     \* the search term of the history (useState(''))
    caches,     \* the origin's cache storage: the URLs held by each cache, by name
    worker,     \* the service worker: its lifecycle phase and the work under way
    response    \* what the page got for the last request the worker saw

vars == <<state, stored, storageFull, now, dialog, reader, download, ops, prev,
          recorded, shareRun, streakRun, queue, filter, caches, worker, response>>

\* the variables most steps of the application leave alone
rest == <<queue, filter, caches, worker, response>>

-----------------------------------------------------------------------------
(* Bounds of the model *)

\* handlers run in one behaviour of Spec
MaxSteps == 3
\* steps of the clock (half days)
MaxTicks == 6
\* uid() results drawn independently in one import (further calls reuse them)
MaxGen == 2
\* files imported in one behaviour of SpecImport
MaxImports == 1
\* steps of the clock in SpecImport
MaxImportTicks == 2
\* recordEntry calls of SpecRecord after the fixed history
MaxFree == 3
\* recordEntry calls of SpecRecord whose inputs are fixed (the history)
HistoryLen == 199

-----------------------------------------------------------------------------
(* JavaScript values *)

Undefined == [t |-> "undefined"]
Null == [t |-> "null"]
Str(s) == [t |-> "string", v |-> s]
Num(n) == [t |-> "number", v |-> n]
Bool(b) == [t |-> "boolean", v |-> b]
Arr(s) == [t |-> "array", v |-> s]
Obj(r) == [t |-> "object", v |-> r]

\* ToBoolean: what `x || y`, `!x`, `!!x` and `x ? a : b` test
Truthy(x) ==
    CASE x.t = "undefined" -> FALSE
      [] x.t = "null" -> FALSE
      [] x.t = "string" -> x.v # ""
      [] x.t = "number" -> x.v # 0
      [] x.t = "boolean" -> x.v
      [] OTHER -> TRUE

\* x || y
Or(x, y) == IF Truthy(x) THEN x ELSE y

\* decimal digits of the numbers the model uses
Digits == <<"0", "1", "2", "3", "4", "5", "6", "7", "8", "9">>

RECURSIVE StringOf(_)
RECURSIVE Join(_)
\* Array.prototype.join(','): null and undefined elements give ''
Join(s) ==
    IF Len(s) = 0 THEN ""
    ELSE LET h == IF Head(s).t \in {"undefined", "null"} THEN "" ELSE StringOf(Head(s))
         IN IF Len(s) = 1 THEN h ELSE h \o "," \o Join(Tail(s))

\* String(x)
StringOf(x) ==
    CASE x.t = "undefined" -> "undefined"
      [] x.t = "null" -> "null"
      [] x.t = "string" -> x.v
      [] x.t = "number" -> Digits[x.v + 1]
      [] x.t = "boolean" -> IF x.v THEN "true" ELSE "false"
      [] x.t = "array" -> Join(x.v)
      [] OTHER -> "[object Object]"

\* Array.isArray(x)
IsArray(x) == x.t = "array"

\* x.k for a value x that is neither null nor undefined
Get(x, k) ==
    IF x.t = "object" /\ k \in DOMAIN x.v THEN x.v[k] ELSE Undefined

\* x.k throws a TypeError
ThrowsOnGet(x) == x.t \in {"undefined", "null"}

\* x?.k
OptGet(x, k) == IF ThrowsOnGet(x) THEN Undefined ELSE Get(x, k)

Min(a, b) == IF a < b THEN a ELSE b

\* Array.prototype.slice(from, to) on a sequence (0-based, to exclusive)
Slice(s, from, to) ==
    LET hi == IF to < Len(s) THEN to ELSE Len(s)
    IN IF from >= hi THEN <<>> ELSE SubSeq(s, from + 1, hi)

-----------------------------------------------------------------------------
(* Dates *)

MsPerDay == 86400000
ClockStep == MsPerDay \div 2

\* the time value of an invalid Date
NaN == -1

\* Date.prototype.toISOString() of the instants of the clock
IsoTable == <<
    "1970-01-01T00:00:00.000Z", "1970-01-01T12:00:00.000Z",
    "1970-01-02T00:00:00.000Z", "1970-01-02T12:00:00.000Z",
    "1970-01-03T00:00:00.000Z", "1970-01-03T12:00:00.000Z",
    "1970-01-04T00:00:00.000Z", "1970-01-04T12:00:00.000Z",
    "1970-01-05T00:00:00.000Z", "1970-01-05T12:00:00.000Z",
    "1970-01-06T00:00:00.000Z", "1970-01-06T12:00:00.000Z" >>

\* date-only forms, which Date parses as midnight UTC
DateOnlyTable == <<"1970-01-01", "1970-01-02", "1970-01-03", "1970-01-04">>

\* Date.prototype.toISOString(): throws a RangeError on an invalid Date
IsoThrows(ms) == ms = NaN
toISOString(ms) == IsoTable[CHOOSE i \in 1..Len(IsoTable) : (i - 1) * ClockStep = ms]

\* Date.parse(s)
ParseDate(s) ==
    IF \E i \in 1..Len(IsoTable) : IsoTable[i] = s
    THEN (CHOOSE i \in 1..Len(IsoTable) : IsoTable[i] = s) * ClockStep - ClockStep
    ELSE IF \E i \in 1..Len(DateOnlyTable) : DateOnlyTable[i] = s
    THEN (CHOOSE i \in 1..Len(DateOnlyTable) : DateOnlyTable[i] = s) * MsPerDay - MsPerDay
    ELSE NaN

\* new Date(x).getTime(): a string is parsed, a number is the time value, an
\* array or an object is converted to a string first
NewDate(x) ==
    CASE x.t = "string" -> ParseDate(x.v)
      [] x.t = "number" -> x.v
      [] x.t = "boolean" -> IF x.v THEN 1 ELSE 0
      [] x.t = "null" -> 0
      [] x.t = "undefined" -> NaN
      [] OTHER -> ParseDate(StringOf(x))

\* d.setHours(0, 0, 0, 0); d.getTime()
LocalMidnight(ms) == IF ms = NaN THEN NaN ELSE ms - (ms % MsPerDay)

-----------------------------------------------------------------------------
(* The Document.  Strings are ASCII here: the icons are written by name   *)
(* ("house" for the house emoji, "lock" for the padlock) and accents are   *)
(* dropped.                                                               *)

PresetColor == "#0ea5e9"
DefaultSuggestions == <<Str("Sali apurado"), Str("Doble chequeo"), Str("Con alarma")>>

Lockable(id, name, icon, color) ==
    [id |-> id, name |-> name, icon |-> icon, color |-> color]

Entry(id, lockableId, tsISO, note) ==
    [id |-> id, lockableId |-> lockableId, tsISO |-> tsISO, note |-> note]

defaultState ==
    [lockables |-> << Lockable(Str("casa"), Str("Casa"), Str("house"), Str(PresetColor)),
                      Lockable(Str("auto"), Str("Auto"), Str("car"), Str(PresetColor)),
                      Lockable(Str("oficina"), Str("Oficina"), Str("office"), Str(PresetColor)) >>,
     entries |-> <<>>,
     prefs |-> [theme |-> Str("system"),
                confirmNote |-> Bool(FALSE),
                quickNoteSuggestions |-> DefaultSuggestions]]

\* the values uid() returns (Math.random() is taken to be nonzero, so never '')
Uids == {"k3j9x2m1q", "p0o9i8u7y"}

-----------------------------------------------------------------------------
(* JSON text.  A text is what JSON.parse makes of it: a value, or a         *)
(* SyntaxError.  NoItem is localStorage.getItem's null, NoFile the absence  *)
(* of a file.                                                               *)

JsonText(v) == [kind |-> "json", value |-> v]
Garbage == [kind |-> "garbage"]
NoItem == [kind |-> "none"]
NoFile == [kind |-> "none"]

\* JSON.parse(text) throws a SyntaxError
ParseThrows(text) == text.kind # "json"
JSONparse(text) == text.value

\* JSON.stringify of an object whose properties are primitives: a property
\* whose value is undefined is left out
JsonOfRecord(r) == Obj([k \in {f \in DOMAIN r : r[f].t # "undefined"} |-> r[k]])

JsonOfList(s) == Arr([i \in 1..Len(s) |-> JsonOfRecord(s[i])])

\* JSON.stringify(state)
stringify(doc) ==
    JsonText(Obj([lockables |-> JsonOfList(doc.lockables),
                  entries |-> JsonOfList(doc.entries),
                  prefs |-> JsonOfRecord([theme |-> doc.prefs.theme,
                                          confirmNote |-> doc.prefs.confirmNote,
                                          quickNoteSuggestions |->
                                              Arr(doc.prefs.quickNoteSuggestions)])]))

\* a parsed Document used as the state: reading a property that is absent
\* gives undefined
RecordOfJson(o, fields) == [f \in fields |-> Get(o, f)]

DocOfJson(v) ==
    [lockables |-> [i \in 1..Len(Get(v, "lockables").v) |->
                        RecordOfJson(Get(v, "lockables").v[i], {"id", "name", "icon", "color"})],
     entries |-> [i \in 1..Len(Get(v, "entries").v) |->
                        RecordOfJson(Get(v, "entries").v[i], {"id", "lockableId", "tsISO", "note"})],
     prefs |-> [theme |-> Get(Get(v, "prefs"), "theme"),
                confirmNote |-> Get(Get(v, "prefs"), "confirmNote"),
                quickNoteSuggestions |-> Get(Get(v, "prefs"), "quickNoteSuggestions").v]]

\* the parsed value has the three fields of a Document, of the right kind
IsDocumentValue(v) ==
    /\ IsArray(Get(v, "lockables"))
    /\ IsArray(Get(v, "entries"))
    /\ IsArray(Get(Get(v, "prefs"), "quickNoteSuggestions"))

\* useLocalStorage's initial state: the stored text parsed, whatever it holds,
\* or the default.  A value that is no Document is held as JSON.parse gave it.
LoadState(text) ==
    IF text.kind = "none" \/ ParseThrows(text) THEN defaultState
    ELSE IF IsDocumentValue(JSONparse(text)) THEN DocOfJson(JSONparse(text))
    ELSE JSONparse(text)

\* the state is a value held as JSON.parse gave it
IsRawValue(s) == "t" \in DOMAIN s

\* App's render throws a TypeError: state.prefs.theme (line 138),
\* state.entries.length and .forEach (lines 303, 329), state.lockables.map (398)
AppThrows(s) ==
    /\ IsRawValue(s)
    /\ \/ ThrowsOnGet(s)
       \/ ThrowsOnGet(Get(s, "prefs"))
       \/ ~IsArray(Get(s, "entries"))
       \/ ~IsArray(Get(s, "lockables"))

\* useLocalStorage's effect: localStorage.setItem, whose failure is ignored
SaveState(doc, full, old) == IF full THEN old ELSE stringify(doc)

-----------------------------------------------------------------------------
(* The handlers of App.  A handler runs to completion: its setState, the   *)
(* render that follows and useLocalStorage's effect are one step.          *)

EntryCap == 200
NoDialog == ""

\* what the user may answer to window.prompt: Cancel is null
NoteAnswers == {Null, Str(""), Str("Doble chequeo")}
NameAnswers == {Null, Str(""), Str("Bici")}
IconAnswers == {Null, Str(""), Str("lock")}
ColorAnswers == {Null, Str(""), Str(PresetColor), Str("#ff0000")}
Themes == {"system", "light", "dark"}

\* the bookkeeping of a handler: which one ran, on which Document
Handled(op) ==
    /\ ops' = Append(ops, op)
    /\ prev' = state

steps == Len(ops)
lastOp == IF Len(ops) = 0 THEN "render" ELSE ops[Len(ops)]
Count(op) == Cardinality({i \in 1..Len(ops) : ops[i] = op})

\* a handler that called setState: the new Document is rendered and saved
Commit(op, doc) ==
    /\ Handled(op)
    /\ state' = doc
    /\ stored' = SaveState(doc, storageFull, stored)

\* the entry recordEntry creates
NewEntry(lockable, answer, id) ==
    LET note == IF Truthy(state.prefs.confirmNote) THEN answer ELSE Undefined
    IN Entry(Str(id), lockable.id, Str(toISOString(now)), Or(note, Undefined))

\* a variant that keeps one entry too many: slice(0, 201)
recordEntryUpdateOffByOne(doc, entry) ==
    [doc EXCEPT !.entries = Slice(<<entry>> \o @, 0, EntryCap + 1)]

\* recordEntry's updater: [entry, ...prev.entries].slice(0, 200)
recordEntryUpdate(doc, entry) ==
    [doc EXCEPT !.entries = Slice(<<entry>> \o @, 0, EntryCap)]

recordEntry(lockable, answer, id) ==
    /\ Commit("recordEntry", recordEntryUpdate(state, NewEntry(lockable, answer, id)))
    /\ dialog' = NoDialog
    /\ UNCHANGED <<storageFull, now, reader, download>>

\* a variant that drops the oldest entry: slice(0, -1)
undoLastUpdateOldest(doc) ==
    [doc EXCEPT !.entries = Slice(@, 0, Len(@) - 1)]

\* undoLast's updater: prev.entries.slice(1)
undoLastUpdate(doc) ==
    [doc EXCEPT !.entries = Slice(@, 1, Len(@))]

\* the button is disabled while entries is empty
undoLast ==
    /\ Len(state.entries) # 0
    /\ Commit("undoLast", undoLastUpdate(state))
    /\ dialog' = NoDialog
    /\ UNCHANGED <<storageFull, now, reader, download>>

\* addLockable's updater: [...prev.lockables, newLockable]
addLockableUpdate(doc, newLockable) ==
    [doc EXCEPT !.lockables = Append(@, newLockable)]

addLockable(name, icon, color, id) ==
    /\ IF ~Truthy(name) \/ ~Truthy(icon)
       THEN /\ Handled("addLockable")
            /\ UNCHANGED <<state, stored>>
       ELSE Commit("addLockable",
                   addLockableUpdate(state, Lockable(Str(id), name, icon, color)))
    /\ dialog' = NoDialog
    /\ UNCHANGED <<storageFull, now, reader, download>>

\* a variant without the spread: prefs: { theme }
updateThemeUpdateDropsPrefs(doc, theme) ==
    [doc EXCEPT !.prefs = [theme |-> Str(theme),
                           confirmNote |-> Undefined,
                           quickNoteSuggestions |-> <<>>]]

\* updateTheme's updater: prefs: {...prev.prefs, theme}
updateThemeUpdate(doc, theme) ==
    [doc EXCEPT !.prefs.theme = Str(theme)]

updateTheme(theme) ==
    /\ Commit("updateTheme", updateThemeUpdate(state, theme))
    /\ dialog' = NoDialog
    /\ UNCHANGED <<storageFull, now, reader, download>>

\* exportData: the file offered for download
exportData ==
    /\ Handled("exportData")
    /\ download' = stringify(state)
    /\ dialog' = NoDialog
    /\ UNCHANGED <<state, stored, storageFull, now, reader>>

\* the host: time passes
Tick(limit) ==
    /\ now < limit * ClockStep
    /\ now' = now + ClockStep
    /\ UNCHANGED <<state, stored, storageFull, dialog, reader, download, ops, prev>>

\* the host: the storage fills up
StorageFills ==
    /\ ~storageFull
    /\ storageFull' = TRUE
    /\ UNCHANGED <<state, stored, now, dialog, reader, download, ops, prev>>

-----------------------------------------------------------------------------
(* importData: the file is read asynchronously; reader.onload parses it,   *)
(* validates it and rebuilds the Document, or shows why it could not.      *)

Failed(message) == [ok |-> FALSE, message |-> message]
Rebuilt(doc) == [ok |-> TRUE, doc |-> doc]

\* the result of the k-th element's uid() call: gen holds the values drawn
Missing(list, i) == ~Truthy(Get(list[i], "id"))
UidFor(list, i, base, gen) ==
    LET k == base + Cardinality({j \in 1..(i - 1) : Missing(list, j)})
    IN gen[(k % MaxGen) + 1]

\* l => ({id: String(l.id || uid()), name: ..., icon: ..., color: ...})
ImportLockable(ls, i, gen) ==
    LET l == ls[i]
    IN Lockable(Str(StringOf(Or(Get(l, "id"), Str(UidFor(ls, i, 0, gen))))),
                Str(StringOf(Or(Get(l, "name"), Str("Sin nombre")))),
                Str(StringOf(Or(Get(l, "icon"), Str("lock")))),
                Str(StringOf(Or(Get(l, "color"), Str(PresetColor)))))

\* data.lockables[0]?.id
FirstLockableId(ls) == IF Len(ls) = 0 THEN Undefined ELSE OptGet(ls[1], "id")

\* new Date(e.tsISO || new Date()).getTime()
ImportTime(e, clock) ==
    IF Truthy(Get(e, "tsISO")) THEN NewDate(Get(e, "tsISO")) ELSE clock

\* e => ({id: String(e.id || uid()), lockableId: ..., tsISO: ..., note: ...})
ImportEntry(ls, es, j, gen, clock) ==
    LET e == es[j]
        base == Cardinality({i \in 1..Len(ls) : Missing(ls, i)})
    IN Entry(Str(StringOf(Or(Get(e, "id"), Str(UidFor(es, j, base, gen))))),
             Str(StringOf(Or(Or(Get(e, "lockableId"), FirstLockableId(ls)), Str("casa")))),
             Str(toISOString(ImportTime(e, clock))),
             IF Truthy(Get(e, "note")) THEN Str(StringOf(Get(e, "note"))) ELSE Undefined)

\* a variant that takes any theme that is given
ImportPrefsAnyTheme(p) ==
    LET theme == OptGet(p, "theme")
        sugg == OptGet(p, "quickNoteSuggestions")
    IN [theme |-> IF Truthy(theme) THEN Str(StringOf(theme)) ELSE Str("system"),
        confirmNote |-> Bool(Truthy(OptGet(p, "confirmNote"))),
        quickNoteSuggestions |->
            IF IsArray(sugg) THEN [i \in 1..Len(sugg.v) |-> Str(StringOf(sugg.v[i]))]
            ELSE DefaultSuggestions]

\* prefs: {theme: ..., confirmNote: ..., quickNoteSuggestions: ...}
ImportPrefs(p) ==
    LET theme == OptGet(p, "theme")
        sugg == OptGet(p, "quickNoteSuggestions")
    IN [theme |-> IF theme.t = "string" /\ theme.v \in Themes THEN theme ELSE Str("system"),
        confirmNote |-> Bool(Truthy(OptGet(p, "confirmNote"))),
        quickNoteSuggestions |->
            IF IsArray(sugg) THEN [i \in 1..Len(sugg.v) |-> Str(StringOf(sugg.v[i]))]
            ELSE DefaultSuggestions]

\* the try block of reader.onload
ImportOutcome(text, gen, clock) ==
    IF ParseThrows(text) THEN Failed("Unexpected token")
    ELSE LET data == JSONparse(text) IN
    IF ThrowsOnGet(data) THEN Failed("Cannot read properties of null")
    ELSE IF ~IsArray(Get(data, "lockables")) \/ ~IsArray(Get(data, "entries"))
    THEN Failed("Formato invalido")
    ELSE LET ls == Get(data, "lockables").v
             es == Get(data, "entries").v IN
    IF \E i \in 1..Len(ls) : ThrowsOnGet(ls[i])
    THEN Failed("Cannot read properties of null")
    ELSE IF \E j \in 1..Len(es) : ThrowsOnGet(es[j])
    THEN Failed("Cannot read properties of null")
    ELSE IF \E j \in 1..Len(es) : IsoThrows(ImportTime(es[j], clock))
    THEN Failed("Invalid time value")
    ELSE Rebuilt([lockables |-> [i \in 1..Len(ls) |-> ImportLockable(ls, i, gen)],
                  entries |-> [j \in 1..Len(es) |-> ImportEntry(ls, es, j, gen, clock)],
                  prefs |-> ImportPrefs(Get(data, "prefs"))])

\* importData(ev): a file was chosen and reader.readAsText(file) is started
importData(file) ==
    /\ reader = NoFile
    /\ reader' = file
    /\ Handled("importData")
    /\ dialog' = NoDialog
    /\ UNCHANGED <<state, stored, storageFull, now, download>>

\* a variant whose catch block shows nothing
onloadSilent(gen) ==
    /\ reader # NoFile
    /\ reader' = NoFile
    /\ LET r == ImportOutcome(reader, gen, now)
       IN IF r.ok
          THEN Commit("onload", r.doc)
          ELSE Handled("onload") /\ UNCHANGED <<state, stored>>
    /\ dialog' = NoDialog
    /\ UNCHANGED <<storageFull, now, download>>

\* a variant that adds the imported entries to those of the Document
onloadMerging(gen) ==
    /\ reader # NoFile
    /\ reader' = NoFile
    /\ LET r == ImportOutcome(reader, gen, now)
       IN IF r.ok
          THEN /\ Commit("onload", [r.doc EXCEPT !.entries = @ \o state.entries])
               /\ dialog' = NoDialog
          ELSE /\ Handled("onload")
               /\ dialog' = "No se pudo importar: " \o r.message
               /\ UNCHANGED <<state, stored>>
    /\ UNCHANGED <<storageFull, now, download>>

\* reader.onload
onload(gen) ==
    /\ reader # NoFile
    /\ reader' = NoFile
    /\ LET r == ImportOutcome(reader, gen, now)
       IN IF r.ok
          THEN /\ Commit("onload", r.doc)
               /\ dialog' = NoDialog
          ELSE /\ Handled("onload")
               /\ dialog' = "No se pudo importar: " \o r.message
               /\ UNCHANGED <<state, stored>>
    /\ UNCHANGED <<storageFull, now, download>>

-----------------------------------------------------------------------------
(* Documents of earlier sessions and files offered to importData *)

\* the k-th recordEntry of the fixed history: the presets in turn, no note
HistoryLockable(k) == defaultState.lockables[((k - 1) % 3) + 1]
HistoryUid(k) == IF k % 2 = 1 THEN "k3j9x2m1q" ELSE "p0o9i8u7y"
HistoryEntry(k) ==
    Entry(Str(HistoryUid(k)), HistoryLockable(k).id, Str(toISOString(0)), Undefined)

\* the Document after n such calls on the default Document, newest first
HistoryDoc(n) ==
    [defaultState EXCEPT !.entries = [i \in 1..n |-> HistoryEntry(n - i + 1)]]

\* a Document of an earlier session: an imported lockable, notes asked for
SavedDoc ==
    [lockables |-> <<Lockable(Str("bici"), Str("Bici"), Str("lock"), Str("#ff0000"))>>,
     entries |-> <<Entry(Str("p0o9i8u7y"), Str("bici"), Str(toISOString(0)), Str("Con alarma"))>>,
     prefs |-> [theme |-> Str("dark"),
                confirmNote |-> Bool(TRUE),
                quickNoteSuggestions |-> <<Str("Con alarma")>>]]

LockFull ==
    Obj([id |-> Str("bici"), name |-> Str("Bici"), icon |-> Str("lock"), color |-> Str("#ff0000")])
LockNoId == Obj([name |-> Str("Moto")])
LockNumbers == Obj([id |-> Num(7), name |-> Num(0), icon |-> Null, color |-> Str("")])
EntryFull ==
    Obj([id |-> Str("e1"), lockableId |-> Str("bici"),
         tsISO |-> Str("1970-01-02T12:00:00.000Z"), note |-> Str("Con alarma")])
EntryBare == Obj(<<>>)
EntryBadDate == Obj([id |-> Str("e2"), lockableId |-> Str("bici"), tsISO |-> Str("ayer")])
EntryDateOnly == Obj([id |-> Str("e3"), lockableId |-> Str("auto"), tsISO |-> Str("1970-01-03")])
EntryNumbers ==
    Obj([id |-> Num(4), lockableId |-> Num(0), tsISO |-> Num(ClockStep), note |-> Num(3)])

FileOf(ls, es) == JsonText(Obj([lockables |-> Arr(ls), entries |-> Arr(es)]))
FileWithPrefs(ls, es, p) ==
    JsonText(Obj([lockables |-> Arr(ls), entries |-> Arr(es), prefs |-> p]))

\* files whose top level is not a Document
MalformedFiles ==
    { Garbage,
      JsonText(Null),
      JsonText(Num(5)),
      JsonText(Arr(<<>>)),
      JsonText(Obj([entries |-> Arr(<<>>)])),
      JsonText(Obj([lockables |-> Arr(<<LockFull>>)])),
      JsonText(Obj([lockables |-> Str("x"), entries |-> Arr(<<>>)])),
      JsonText(Obj([lockables |-> Arr(<<>>), entries |-> Obj(<<>>)])) }

\* files whose top level is a Document, with fields present, missing or odd
ShapedFiles ==
    { FileOf(<<>>, <<>>),
      FileOf(<<LockFull>>, <<EntryFull>>),
      FileOf(<<LockNoId, LockFull>>, <<EntryBare>>),
      FileOf(<<LockFull, LockNoId>>, <<EntryBare, EntryNumbers>>),
      FileOf(<<LockNumbers>>, <<EntryNumbers, EntryDateOnly>>),
      FileOf(<<>>, <<EntryBare>>),
      FileOf(<<LockFull>>, <<EntryFull, EntryBadDate>>),
      FileOf(<<Null>>, <<>>),
      FileOf(<<LockFull>>, <<Null>>),
      FileOf(<<Num(1), Str("x")>>, <<Num(2)>>),
      FileWithPrefs(<<>>, <<>>, Null),
      FileWithPrefs(<<>>, <<>>, Str("dark")),
      FileWithPrefs(<<LockFull>>, <<>>,
                    Obj([theme |-> Str("blue"), confirmNote |-> Num(1),
                         quickNoteSuggestions |-> Str("x")])),
      FileWithPrefs(<<>>, <<EntryFull>>,
                    Obj([theme |-> Str("dark"), confirmNote |-> Bool(TRUE),
                         quickNoteSuggestions |-> Arr(<<Num(1), Null, Str("a")>>)])),
      FileWithPrefs(<<>>, <<>>, Obj([theme |-> Num(1), confirmNote |-> Str("")])) }

\* an export with one entry more than recordEntry keeps
LongFile == stringify(HistoryDoc(EntryCap + 1))

Files == MalformedFiles \cup ShapedFiles \cup {LongFile}

-----------------------------------------------------------------------------
(* The service worker.  Cache storage maps the name of each cache to the   *)
(* URLs it holds a response for; a response is known by its URL.           *)

CACHE_NAME == "lock-logger-v1"
ASSETS == << "./", "./index.html", "./main.js", "./manifest.webmanifest",
             "./icons/icon-192.png", "./icons/icon-512.png" >>
AssetSet == {ASSETS[i] : i \in 1..Len(ASSETS)}

\* caches.open(name): the cache of that name, created empty if there is none
CachesOpen(cs, name) ==
    [n \in DOMAIN cs \cup {name} |-> IF n \in DOMAIN cs THEN cs[n] ELSE {}]

\* cache.addAll(urls) once every fetch succeeded: all responses are put at once
CacheAddAll(cs, name, urls) == [cs EXCEPT ![name] = @ \cup urls]

\* caches.delete(name)
CachesDelete(cs, name) == [n \in DOMAIN cs \ {name} |-> cs[n]]

\* caches.match(url): a response of any cache, or undefined
CachesMatch(cs, url) == \E n \in DOMAIN cs : url \in cs[n]

\* the worker while an event's waitUntil work is under way:
\* opened - caches.open has resolved; fetched - the assets addAll could fetch;
\* keys - the caches activate still deletes; deleted - those it has deleted;
\* installs - install events so far
Worker(phase, installs) ==
    [phase |-> phase, opened |-> FALSE, fetched |-> {}, keys |-> {}, deleted |-> {},
     installs |-> installs]

NoResponse == [kind |-> "none"]

\* the install listener, up to caches.open(CACHE_NAME)
InstallOpen ==
    /\ worker.phase = "installing"
    /\ ~worker.opened
    /\ caches' = CachesOpen(caches, CACHE_NAME)
    /\ worker' = [worker EXCEPT !.opened = TRUE]
    /\ UNCHANGED response

\* cache.addAll(ASSETS): all of the assets or, if a fetch fails, none
InstallOutcome(cs, fetched) ==
    IF fetched = AssetSet THEN CacheAddAll(cs, CACHE_NAME, AssetSet) ELSE cs

\* a variant that swallows the rejection and keeps what could be fetched
InstallSettledLenient(fetched) ==
    /\ worker.phase = "installing"
    /\ worker.opened
    /\ caches' = CacheAddAll(caches, CACHE_NAME, fetched)
    /\ worker' = [worker EXCEPT !.phase = "installed", !.fetched = fetched]
    /\ UNCHANGED response

\* the promise given to event.waitUntil settles: the install succeeds if it is
\* fulfilled and fails (the worker is discarded) if it is rejected
InstallSettled(fetched) ==
    /\ worker.phase = "installing"
    /\ worker.opened
    /\ caches' = InstallOutcome(caches, fetched)
    /\ worker' = [worker EXCEPT !.phase = IF fetched = AssetSet THEN "installed"
                                          ELSE "redundant",
                                !.fetched = fetched]
    /\ UNCHANGED response

\* the host activates the installed worker: the activate listener lists the
\* caches and calls caches.delete for every key but CACHE_NAME
ActivateKeys ==
    /\ worker.phase = "installed"
    /\ worker' = [worker EXCEPT !.phase = "activating", !.keys = DOMAIN caches \ {CACHE_NAME}]
    /\ UNCHANGED <<caches, response>>

\* one of the deletions completes
ActivateDelete(key) ==
    /\ worker.phase = "activating"
    /\ key \in worker.keys
    /\ caches' = CachesDelete(caches, key)
    /\ worker' = [worker EXCEPT !.keys = @ \ {key}, !.deleted = @ \cup {key}]
    /\ UNCHANGED response

\* Promise.all is fulfilled: the activate work is complete
ActivateDone ==
    /\ worker.phase = "activating"
    /\ worker.keys = {}
    /\ worker' = [worker EXCEPT !.phase = "activated"]
    /\ UNCHANGED <<caches, response>>

\* the page is loaded again and registers the worker: a failed install is retried
Register(limit) ==
    /\ worker.phase = "redundant"
    /\ worker.installs < limit
    /\ worker' = Worker("installing", worker.installs + 1)
    /\ UNCHANGED <<caches, response>>

\* the requests of the page: the assets, a URL that is no asset, the index
\* document with a query string
Urls == AssetSet \cup {"./api/ping", "./index.html?source=pwa"}
Methods == {"GET", "POST", "HEAD"}
Request(method, url) == [method |-> method, url |-> url]

\* what the page gets: the browser's own handling when respondWith was not
\* called, else the response the promise given to respondWith resolved with;
\* respondWith(undefined) is a network error
Untouched(req, online) == [kind |-> "untouched", request |-> req, online |-> online]
Responded(req, online, from, url) ==
    [kind |-> from, request |-> req, online |-> online, url |-> url]
NetworkError(req, online) == [kind |-> "network error", request |-> req, online |-> online]

\* the fetch listener; online: fetch(event.request) is fulfilled
fetchListener(cs, req, online) ==
    IF req.method # "GET" THEN Untouched(req, online)
    ELSE IF CachesMatch(cs, req.url) THEN Responded(req, online, "cache", req.url)
    ELSE IF online THEN Responded(req, online, "network", req.url)
    ELSE IF CachesMatch(cs, "./index.html")
    THEN Responded(req, online, "cache", "./index.html")
    ELSE NetworkError(req, online)

\* a fetch event of a page the activated worker controls
Fetch(req, online) ==
    /\ worker.phase = "activated"
    /\ response' = fetchListener(caches, req, online)
    /\ UNCHANGED <<caches, worker>>

\* caches of earlier deployments and of another application of the origin
OldCaches == {"lock-logger-v0", "notes-app-v3"}
OldContents(name) ==
    IF name = "lock-logger-v0" THEN {"./", "./index.html", "./main.js"}
    ELSE {"./notes/index.html"}
CacheStorage(names) == [n \in names |-> OldContents(n)]

-----------------------------------------------------------------------------
(* Spec: a session of the application.  The Document of an earlier session *)
(* is loaded, then the handlers run in any order; a file exported in the   *)
(* session may be imported again.                                          *)

\* navigator.share and navigator.clipboard exist or not; no share is under way
NoShare(canShare, canCopy) ==
    [pc |-> "idle", canShare |-> canShare, canCopy |-> canCopy, outcome |-> "none"]
IdleShare == NoShare(FALSE, FALSE)
\* the streak of the current render is not computed yet
IdleStreak == [pc |-> "idle"]

StoredAtStartup == { NoItem, Garbage, stringify(SavedDoc) }

\* the first render: the stored Document or the default, saved by the effect;
\* if the render throws nothing is mounted and the effect never runs
StartupDoc(text, full) ==
    /\ state = LoadState(text)
    /\ storageFull = full
    /\ stored = IF AppThrows(LoadState(text)) THEN text
                ELSE SaveState(LoadState(text), full, text)
    /\ now = 0
    /\ dialog = NoDialog
    /\ reader = NoFile
    /\ download = NoFile
    /\ ops = <<>>
    /\ prev = LoadState(text)
    /\ recorded = <<>>
    /\ queue = <<>>
    /\ filter = ""

\* the service worker is not registered yet (the window's load event, line 541)
Unregistered ==
    /\ caches = CacheStorage({})
    /\ worker = Worker("unregistered", 0)
    /\ response = NoResponse

Startup(text, full) ==
    /\ StartupDoc(text, full)
    /\ shareRun = IdleShare
    /\ streakRun = IdleStreak
    /\ Unregistered

Init == \E text \in StoredAtStartup, full \in BOOLEAN : Startup(text, full)

Others == UNCHANGED <<recorded, shareRun, streakRun, rest>>

\* the prompts a handler does not reach are not answered
Asked(shown, answers) == IF shown THEN answers ELSE {Null}

RecordEntry ==
    /\ steps < MaxSteps
    /\ \E i \in 1..Len(state.lockables), id \in Uids :
       \E answer \in Asked(Truthy(state.prefs.confirmNote), NoteAnswers) :
          recordEntry(state.lockables[i], answer, id)
    /\ Others

UndoLast == steps < MaxSteps /\ undoLast /\ Others

AddLockable ==
    /\ steps < MaxSteps
    /\ \E name \in NameAnswers :
       \E icon \in Asked(Truthy(name), IconAnswers) :
       \E color \in Asked(Truthy(name) /\ Truthy(icon), ColorAnswers) :
       \E id \in IF Truthy(name) /\ Truthy(icon) THEN Uids ELSE {"k3j9x2m1q"} :
          addLockable(name, icon, color, id)
    /\ Others

UpdateTheme == steps < MaxSteps /\ (\E theme \in Themes : updateTheme(theme)) /\ Others

ExportData == steps < MaxSteps /\ exportData /\ Others

ImportExported ==
    /\ steps < MaxSteps
    /\ download # NoFile
    /\ importData(download)
    /\ Others

\* the uid() calls an import of the file makes: one for each id that is missing
UidCalls(text) ==
    IF ParseThrows(text) THEN 0
    ELSE LET ls == OptGet(JSONparse(text), "lockables")
             es == OptGet(JSONparse(text), "entries")
         IN (IF IsArray(ls) THEN Cardinality({i \in 1..Len(ls.v) : Missing(ls.v, i)}) ELSE 0)
          + (IF IsArray(es) THEN Cardinality({j \in 1..Len(es.v) : Missing(es.v, j)}) ELSE 0)

\* the results of those calls; the values that are never drawn are fixed
Draws(n) ==
    {gen \in [1..MaxGen -> Uids] : \A k \in 1..MaxGen : k > n => gen[k] = "k3j9x2m1q"}

Onload == (\E gen \in Draws(UidCalls(reader)) : onload(gen)) /\ Others

Next ==
    \/ RecordEntry
    \/ UndoLast
    \/ AddLockable
    \/ UpdateTheme
    \/ ExportData
    \/ ImportExported
    \/ Onload
    \/ StorageFills /\ Others

Spec == Init /\ [][Next]_vars

-----------------------------------------------------------------------------
(* SpecRecord: recordEntry alone, from the empty default Document, past    *)
(* the cap.  The first HistoryLen calls have fixed inputs; the inputs of   *)
(* the calls after them are free.                                          *)

InitRecord == Startup(NoItem, FALSE)

Recording(lockable, answer, id) ==
    /\ recordEntry(lockable, answer, id)
    /\ recorded' = Append(recorded, NewEntry(lockable, answer, id))
    /\ UNCHANGED <<shareRun, streakRun, rest>>

RecordHistory ==
    /\ Len(recorded) < HistoryLen
    /\ Recording(HistoryLockable(Len(recorded) + 1), Null, HistoryUid(Len(recorded) + 1))

RecordFree ==
    /\ Len(recorded) >= HistoryLen
    /\ Len(recorded) < HistoryLen + MaxFree
    /\ \E i \in 1..Len(state.lockables), id \in Uids :
          Recording(state.lockables[i], Null, id)

NextRecord == RecordHistory \/ RecordFree

SpecRecord == InitRecord /\ [][NextRecord]_vars

\* the history is a Document the program reaches, saved as it is
HistoryIsRecorded ==
    Len(recorded) = HistoryLen =>
        state = HistoryDoc(HistoryLen) /\ stored = stringify(HistoryDoc(HistoryLen))

-----------------------------------------------------------------------------
(* SpecCap: a session that starts from the empty default Document or from  *)
(* the recorded history, one entry below the cap.                          *)

InitCap == \E text \in {NoItem, stringify(HistoryDoc(HistoryLen))} : Startup(text, FALSE)

NextCap == RecordEntry \/ UndoLast \/ UpdateTheme

SpecCap == InitCap /\ [][NextCap]_vars

-----------------------------------------------------------------------------
(* SpecImport: files of every shape are imported while the clock runs.     *)

ImportFile ==
    /\ Count("importData") < MaxImports
    /\ \E file \in Files : importData(file)
    /\ Others

NextImport ==
    \/ ImportFile
    \/ Onload
    \/ Tick(MaxImportTicks) /\ Others
    \/ StorageFills /\ Others

SpecImport == Init /\ [][NextImport]_vars


-----------------------------------------------------------------------------
(* The streak of a render: useMemo's function, one loop iteration a step.  *)
(* It is computed again when state.entries changes, not when time passes.  *)

\* d = new Date(e.tsISO); d.setHours(0, 0, 0, 0); d.getTime()
EntryDay(e) == LocalMidnight(NewDate(e.tsISO))

\* a variant that starts at yesterday when today has no entry yet
streakStartGrace(entries, clock) ==
    LET days == {EntryDay(entries[i]) : i \in 1..Len(entries)}
        today == LocalMidnight(clock)
    IN IF Len(entries) = 0
       THEN [pc |-> "done", count |-> 0, today |-> today]
       ELSE [pc |-> "loop", daysWithEntry |-> days, count |-> 0, today |-> today,
             date |-> IF today \in days THEN today ELSE today - MsPerDay]

\* up to the loop: the early return, daysWithEntry, count = 0, date = today
streakStart(entries, clock) ==
    IF Len(entries) = 0
    THEN [pc |-> "done", count |-> 0, today |-> LocalMidnight(clock)]
    ELSE [pc |-> "loop",
          daysWithEntry |-> {EntryDay(entries[i]) : i \in 1..Len(entries)},
          count |-> 0,
          today |-> LocalMidnight(clock),
          date |-> LocalMidnight(clock)]

\* one test of the while condition, and the body if it holds;
\* date.setDate(date.getDate() - 1) is the midnight of the day before
streakStep(run) ==
    IF run.date \in run.daysWithEntry
    THEN [run EXCEPT !.count = @ + 1, !.date = @ - MsPerDay]
    ELSE [pc |-> "done", count |-> run.count, today |-> run.today]

StreakStart ==
    /\ streakRun.pc = "idle"
    /\ streakRun' = streakStart(state.entries, now)
    /\ UNCHANGED <<state, stored, storageFull, now, dialog, reader, download, ops, prev,
                   recorded, shareRun, rest>>

StreakLoop ==
    /\ streakRun.pc = "loop"
    /\ streakRun' = streakStep(streakRun)
    /\ UNCHANGED <<state, stored, storageFull, now, dialog, reader, download, ops, prev,
                   recorded, shareRun, rest>>

\* a handler runs once the render is complete; new entries mean a new streak
Rendered == streakRun.pc = "done"

StreakRecord ==
    /\ Rendered
    /\ steps < MaxSteps
    /\ \E i \in 1..Len(state.lockables) : recordEntry(state.lockables[i], Null, "k3j9x2m1q")
    /\ streakRun' = IdleStreak
    /\ UNCHANGED <<recorded, shareRun, rest>>

StreakUndo ==
    /\ Rendered
    /\ steps < MaxSteps
    /\ undoLast
    /\ streakRun' = IdleStreak
    /\ UNCHANGED <<recorded, shareRun, rest>>

StreakTick == Rendered /\ Tick(MaxTicks) /\ Others

InitStreak == \E text \in {NoItem, stringify(SavedDoc)} : Startup(text, FALSE)

NextStreak == StreakStart \/ StreakLoop \/ StreakRecord \/ StreakUndo \/ StreakTick

SpecStreak == InitStreak /\ [][NextStreak]_vars

-----------------------------------------------------------------------------
(* shareLast: the message of the last entry goes to navigator.share, to    *)
(* the clipboard or to an alert; the promises settle in later steps.       *)

\* formatDateTime(new Date(tsISO)): toLocaleString('es-AR') of the instants
LocalTable == <<
    "1/1/70, 00:00", "1/1/70, 12:00", "2/1/70, 00:00", "2/1/70, 12:00",
    "3/1/70, 00:00", "3/1/70, 12:00", "4/1/70, 00:00", "4/1/70, 12:00",
    "5/1/70, 00:00", "5/1/70, 12:00", "6/1/70, 00:00", "6/1/70, 12:00" >>

formatDateTime(ms) ==
    IF ms = NaN THEN "Invalid Date"
    ELSE LocalTable[CHOOSE i \in 1..Len(LocalTable) : (i - 1) * ClockStep = ms]

\* state.lockables.find((l) => l.id === last.lockableId)
FindLockable(doc, id) ==
    LET found == {i \in 1..Len(doc.lockables) : doc.lockables[i].id = id}
    IN IF found = {} THEN Undefined
       ELSE Obj(doc.lockables[CHOOSE i \in found : \A j \in found : i <= j])

ShareMessage(doc) ==
    LET last == doc.entries[1]
        lock == FindLockable(doc, last.lockableId)
    IN "Ultimo registro: "
       \o StringOf(IF Truthy(lock) THEN lock.v.name ELSE last.lockableId)
       \o " a las " \o formatDateTime(NewDate(last.tsISO))

Settled(outcome) == [shareRun EXCEPT !.pc = "done", !.outcome = outcome]

DocUnchanged ==
    UNCHANGED <<state, stored, storageFull, now, reader, download, recorded, streakRun, rest>>

shareLast ==
    /\ shareRun.pc \in {"idle", "done"}
    /\ Handled("shareLast")
    /\ IF Len(state.entries) = 0
       THEN /\ dialog' = "No hay registros aun."
            /\ shareRun' = Settled("alert")
       ELSE IF shareRun.canShare
       THEN /\ dialog' = NoDialog
            /\ shareRun' = [shareRun EXCEPT !.pc = "sharing", !.outcome = "none"]
       ELSE IF shareRun.canCopy
       THEN /\ dialog' = NoDialog
            /\ shareRun' = [shareRun EXCEPT !.pc = "copying", !.outcome = "none"]
       ELSE /\ dialog' = ShareMessage(state)
            /\ shareRun' = Settled("alert")
    /\ DocUnchanged

\* navigator.share(...) is fulfilled: the host's share sheet has done its work
ShareFulfilled ==
    /\ shareRun.pc = "sharing"
    /\ shareRun' = Settled("shared")
    /\ UNCHANGED <<dialog, ops, prev>>
    /\ DocUnchanged

\* navigator.share(...) is rejected: the catch callback turns to the clipboard,
\* and throws a TypeError if navigator.clipboard is undefined
ShareRejected ==
    /\ shareRun.pc = "sharing"
    /\ shareRun' = IF shareRun.canCopy THEN [shareRun EXCEPT !.pc = "copying"]
                   ELSE Settled("unhandled rejection")
    /\ UNCHANGED <<dialog, ops, prev>>
    /\ DocUnchanged

\* navigator.clipboard.writeText(msg) is fulfilled
CopyFulfilled ==
    /\ shareRun.pc = "copying"
    /\ dialog' = "Copiado al portapapeles"
    /\ shareRun' = Settled("alert")
    /\ UNCHANGED <<ops, prev>>
    /\ DocUnchanged

\* navigator.clipboard.writeText(msg) is rejected: .catch(() => {})
CopyRejected ==
    /\ shareRun.pc = "copying"
    /\ shareRun' = Settled("nothing")
    /\ UNCHANGED <<dialog, ops, prev>>
    /\ DocUnchanged

InitShare ==
    \E text \in StoredAtStartup, canShare \in BOOLEAN, canCopy \in BOOLEAN :
        /\ StartupDoc(text, FALSE)
        /\ shareRun = NoShare(canShare, canCopy)
        /\ streakRun = IdleStreak
        /\ Unregistered

NextShare ==
    \/ steps < MaxSteps /\ shareLast
    \/ ShareFulfilled
    \/ ShareRejected
    \/ CopyFulfilled
    \/ CopyRejected
    \/ RecordEntry
    \/ UndoLast

SpecShare == InitShare /\ [][NextShare]_vars

-----------------------------------------------------------------------------
(* SpecWorker: the worker is registered on an origin that may hold caches  *)
(* of earlier deployments; it is installed (again after a failure),        *)
(* activated, and then serves the requests of the page.  Nothing but the   *)
(* worker touches the cache storage.                                       *)

\* install events of one behaviour
MaxInstalls == 2

\* the Document side of the application at rest
AppAtRest ==
    /\ StartupDoc(NoItem, FALSE)
    /\ shareRun = IdleShare
    /\ streakRun = IdleStreak

AppUnchanged ==
    UNCHANGED <<state, stored, storageFull, now, dialog, reader, download, ops, prev,
                recorded, shareRun, streakRun, queue, filter>>

InitWorker ==
    /\ AppAtRest
    /\ \E names \in SUBSET OldCaches : caches = CacheStorage(names)
    /\ worker = Worker("installing", 1)
    /\ response = NoResponse

Install ==
    \/ InstallOpen /\ AppUnchanged
    \/ \E fetched \in SUBSET AssetSet : InstallSettled(fetched) /\ AppUnchanged
    \/ Register(MaxInstalls) /\ AppUnchanged

Activate ==
    \/ ActivateKeys /\ AppUnchanged
    \/ \E key \in DOMAIN caches : ActivateDelete(key) /\ AppUnchanged
    \/ ActivateDone /\ AppUnchanged

FetchEvent ==
    \E method \in Methods, url \in Urls, online \in BOOLEAN :
        Fetch(Request(method, url), online) /\ AppUnchanged

NextWorker == Install \/ Activate \/ FetchEvent

SpecWorker == InitWorker /\ [][NextWorker]_vars

-----------------------------------------------------------------------------
(* SpecFetch: the activated worker serves requests whatever the cache      *)
(* storage holds.  The storage belongs to the origin: the user, the pages  *)
(* and the other workers of the origin can delete caches, as this worker's *)
(* activate listener does with theirs.                                     *)

\* what the storage may hold when a request arrives
CacheStates ==
    { CacheAddAll(CachesOpen(CacheStorage(names), CACHE_NAME), CACHE_NAME, AssetSet) :
          names \in SUBSET {"notes-app-v3"} }
    \cup { CacheStorage(names) : names \in SUBSET {"notes-app-v3"} }

InitFetch ==
    /\ AppAtRest
    /\ caches \in CacheStates
    /\ worker = [Worker("activated", 1) EXCEPT !.opened = TRUE, !.fetched = AssetSet]
    /\ response = NoResponse

\* a cache is deleted from outside the worker
CacheCleared ==
    /\ \E name \in DOMAIN caches : caches' = CachesDelete(caches, name)
    /\ UNCHANGED <<worker, response>>
    /\ AppUnchanged

NextFetch == FetchEvent \/ CacheCleared

SpecFetch == InitFetch /\ [][NextFetch]_vars

-----------------------------------------------------------------------------
(* The history filter.  A string is a sequence of characters; the letters  *)
(* of the model are the 26 of ASCII and the only white space is the space. *)

UpperLetters == "ABCDEFGHIJKLMNOPQRSTUVWXYZ"
LowerLetters == "abcdefghijklmnopqrstuvwxyz"
CharAt(s, i) == SubSeq(s, i, i)

\* one character of toLowerCase()
LowerChar(c) ==
    LET at == {i \in 1..Len(UpperLetters) : CharAt(UpperLetters, i) = c}
    IN IF at = {} THEN c ELSE CharAt(LowerLetters, CHOOSE i \in at : TRUE)

RECURSIVE toLowerCase(_)
\* String.prototype.toLowerCase()
toLowerCase(s) ==
    IF Len(s) = 0 THEN ""
    ELSE LowerChar(CharAt(s, 1)) \o toLowerCase(SubSeq(s, 2, Len(s)))

RECURSIVE trim(_)
\* String.prototype.trim()
trim(s) ==
    IF Len(s) = 0 THEN ""
    ELSE IF CharAt(s, 1) = " " THEN trim(SubSeq(s, 2, Len(s)))
    ELSE IF CharAt(s, Len(s)) = " " THEN trim(SubSeq(s, 1, Len(s) - 1))
    ELSE s

\* String.prototype.includes(term)
includes(s, term) ==
    \E from \in 0..(Len(s) - Len(term)) : SubSeq(s, from + 1, from + Len(term)) = term

\* a variant that compares the term as it was typed, without toLowerCase()
filteredEntriesCaseSensitive(doc, text) ==
    LET term == trim(text)
        Keeps(e) ==
            LET lock == FindLockable(doc, e.lockableId)
                name == IF Truthy(lock) THEN toLowerCase(lock.v.name.v) ELSE ""
                note == toLowerCase(Or(e.note, Str("")).v)
            IN includes(name, term) \/ includes(note, term)
    IN IF term = "" THEN doc.entries ELSE SelectSeq(doc.entries, Keeps)

\* filteredEntries, the function given to useMemo
filteredEntries(doc, text) ==
    LET term == toLowerCase(trim(text))
        Keeps(e) ==
            LET lock == FindLockable(doc, e.lockableId)
                name == IF Truthy(lock) THEN toLowerCase(lock.v.name.v) ELSE ""
                note == toLowerCase(Or(e.note, Str("")).v)
            IN includes(name, term) \/ includes(note, term)
    IN IF term = "" THEN doc.entries ELSE SelectSeq(doc.entries, Keeps)

\* the search box: onChange: (e) => setFilter(e.target.value)
setFilter(text) ==
    /\ filter' = text
    /\ UNCHANGED <<state, stored, storageFull, now, dialog, reader, download, ops, prev>>

\* what the user may type in the search box
Terms == {"", "  ", "casa", "CASA", " Casa ", "bici", "ICI", "apurado", "a de", "moto", "x"}

\* a Document of an earlier session: two lockables; entries with and without
\* a note, and one (imported) whose lockable is not among the lockables
FilterDoc ==
    [lockables |-> << Lockable(Str("casa"), Str("Casa"), Str("house"), Str(PresetColor)),
                      Lockable(Str("bici"), Str("Bici"), Str("lock"), Str("#ff0000")) >>,
     entries |-> << Entry(Str("k3j9x2m1q"), Str("casa"), Str(toISOString(0)), Str("Sali apurado")),
                    Entry(Str("p0o9i8u7y"), Str("bici"), Str(toISOString(0)), Undefined),
                    Entry(Str("k3j9x2m1q"), Str("moto"), Str(toISOString(0)), Str("Casa de Ana")),
                    Entry(Str("p0o9i8u7y"), Str("casa"), Str(toISOString(0)), Undefined) >>,
     prefs |-> defaultState.prefs]

\* handlers run in one behaviour of SpecFilter
MaxFilterSteps == 2

InitFilter ==
    \E text \in {NoItem, stringify(SavedDoc), stringify(FilterDoc)} : Startup(text, FALSE)

SetFilter ==
    /\ \E text \in Terms : setFilter(text)
    /\ UNCHANGED <<recorded, shareRun, streakRun, queue, caches, worker, response>>

FilterRecord ==
    /\ steps < MaxFilterSteps
    /\ \E i \in 1..Len(state.lockables) :
       \E answer \in Asked(Truthy(state.prefs.confirmNote), NoteAnswers) :
          recordEntry(state.lockables[i], answer, "k3j9x2m1q")
    /\ Others

FilterAddLockable ==
    /\ steps < MaxFilterSteps
    /\ addLockable(Str("Bici"), Str("lock"), Str(PresetColor), "p0o9i8u7y")
    /\ Others

FilterUndo == steps < MaxFilterSteps /\ undoLast /\ Others

NextFilter == SetFilter \/ FilterRecord \/ FilterAddLockable \/ FilterUndo

SpecFilter == InitFilter /\ [][NextFilter]_vars

-----------------------------------------------------------------------------
(* SpecStartup: the application starts on whatever the storage holds under *)
(* its key, and is used if its first render succeeded.                     *)

\* stored texts that JSON.parse accepts and that are no Document
StoredOdd ==
    { JsonText(Null), JsonText(Obj(<<>>)), JsonText(Arr(<<>>)), JsonText(Num(5)),
      JsonText(Obj([lockables |-> Arr(<<>>), entries |-> Arr(<<>>)])) }

InitStartup ==
    \E text \in StoredAtStartup \cup StoredOdd, full \in BOOLEAN : Startup(text, full)

\* the handlers belong to a mounted App
Mounted == ~AppThrows(state)

NextStartup ==
    \/ Mounted /\ RecordEntry
    \/ Mounted /\ UndoLast
    \/ Mounted /\ AddLockable
    \/ Mounted /\ UpdateTheme

SpecStartup == InitStartup /\ [][NextStartup]_vars

-----------------------------------------------------------------------------
(* SpecBatch: setState with an updater does not change the state at once.  *)
(* The updater is queued; at the next render the queued updaters are       *)
(* applied in order, each to the result of the one before.  Here a handler *)
(* call and the render are separate steps, so that several handlers of the *)
(* same render can be called before the Document is rendered again; state  *)
(* is the Document of the last render, the one the handlers close over.    *)

Update(op, arg) == [op |-> op, arg |-> arg]

\* the updater function of each handler (lines 167, 184, 194, 364)
Apply(doc, update) ==
    CASE update.op = "recordEntry" -> recordEntryUpdate(doc, update.arg)
      [] update.op = "undoLast" -> undoLastUpdate(doc)
      [] update.op = "addLockable" -> addLockableUpdate(doc, update.arg)
      [] update.op = "updateTheme" -> updateThemeUpdate(doc, update.arg)

\* a variant in which every updater works on the Document of the last render
ProcessCaptured(doc, updates) ==
    IF Len(updates) = 0 THEN doc ELSE Apply(doc, updates[Len(updates)])

RECURSIVE Process(_, _)
\* the queue is processed: each updater gets the latest Document
Process(doc, updates) ==
    IF Len(updates) = 0 THEN doc
    ELSE Process(Apply(doc, Head(updates)), Tail(updates))

\* a handler called setState((prev) => ...)
Enqueue(op, arg) ==
    /\ queue' = Append(queue, Update(op, arg))
    /\ ops' = Append(ops, op)
    /\ UNCHANGED <<state, stored, storageFull, now, dialog, reader, download, prev,
                   recorded, shareRun, streakRun, filter, caches, worker, response>>

\* the render that follows: the new Document, saved by useLocalStorage's effect
Render ==
    /\ Len(queue) # 0
    /\ state' = Process(state, queue)
    /\ stored' = SaveState(Process(state, queue), storageFull, stored)
    /\ prev' = state
    /\ queue' = <<>>
    /\ UNCHANGED <<storageFull, now, dialog, reader, download, ops,
                   recorded, shareRun, streakRun, filter, caches, worker, response>>

\* handler calls of one behaviour of SpecBatch
MaxCalls == 3

\* uid() of the n-th call: two values in turn
CallUid == IF Len(ops) % 2 = 0 THEN "k3j9x2m1q" ELSE "p0o9i8u7y"

\* the handlers as the last render made them: recordEntry(lock) of a lockable
\* shown, undoLast unless its button is disabled, addLockable, updateTheme
CallRecordEntry ==
    /\ steps < MaxCalls
    /\ \E i \in 1..Min(2, Len(state.lockables)) :
          Enqueue("recordEntry", NewEntry(state.lockables[i], Null, CallUid))

CallUndoLast ==
    /\ steps < MaxCalls
    /\ Len(state.entries) # 0
    /\ Enqueue("undoLast", Null)

CallAddLockable ==
    /\ steps < MaxCalls
    /\ Enqueue("addLockable", Lockable(Str(CallUid), Str("Bici"), Str("lock"), Str("#ff0000")))

CallUpdateTheme ==
    /\ steps < MaxCalls
    /\ \E theme \in {"light", "dark"} : Enqueue("updateTheme", theme)

InitBatch ==
    \E text \in {NoItem, stringify(SavedDoc), stringify(HistoryDoc(HistoryLen))} :
        Startup(text, FALSE)

NextBatch == CallRecordEntry \/ CallUndoLast \/ CallAddLockable \/ CallUpdateTheme \/ Render

SpecBatch == InitBatch /\ [][NextBatch]_vars

-----------------------------------------------------------------------------
(* SpecPending: a file is being read while the application is used; the    *)
(* handlers run between importData and reader.onload.                      *)

\* a file with everything in place, one whose ids and timestamp are made up
\* by the import, one without lockables, one that is no JSON
PendingFiles ==
    { FileOf(<<LockFull>>, <<EntryFull>>),
      FileOf(<<LockNoId>>, <<EntryBare>>),
      JsonText(Obj([entries |-> Arr(<<>>)])),
      Garbage }

\* handlers and callbacks run in one behaviour of SpecPending
MaxPending == 3

InitPending == \E text \in {NoItem, stringify(SavedDoc)} : Startup(text, FALSE)

PendingImport ==
    /\ steps < MaxPending
    /\ Count("importData") < MaxImports
    /\ \E file \in PendingFiles : importData(file)
    /\ Others

PendingRecord ==
    /\ steps < MaxPending
    /\ \E i \in 1..Min(2, Len(state.lockables)) :
          recordEntry(state.lockables[i], Null, "k3j9x2m1q")
    /\ Others

PendingUndo == steps < MaxPending /\ undoLast /\ Others

PendingAddLockable ==
    /\ steps < MaxPending
    /\ addLockable(Str("Bici"), Str("lock"), Str("#ff0000"), "p0o9i8u7y")
    /\ Others

PendingTheme ==
    /\ steps < MaxPending
    /\ \E theme \in {"light", "dark"} : updateTheme(theme)
    /\ Others

NextPending ==
    \/ PendingImport
    \/ PendingRecord
    \/ PendingUndo
    \/ PendingAddLockable
    \/ PendingTheme
    \/ Onload
    \/ Tick(MaxImportTicks) /\ Others

SpecPending == InitPending /\ [][NextPending]_vars

-----------------------------------------------------------------------------
(* The claims *)

\* the step in which reader.onload runs on the file read
OnloadStep == reader # NoFile /\ reader' = NoFile

\* the parsed file has both lockables and entries present as sequences
HasSequence(v, k) == v.t = "object" /\ k \in DOMAIN v.v /\ v.v[k].t = "array"
DocumentShaped(text) ==
    /\ text.kind = "json"
    /\ HasSequence(text.value, "lockables")
    /\ HasSequence(text.value, "entries")

\* C1: from empty entries, after N recordEntry calls and nothing else, entries
\* holds the min(N, 200) entries recorded last, the most recent first.
C1_NewestFirstCapped ==
    /\ Len(state.entries) = Min(Len(recorded), EntryCap)
    /\ \A i \in 1..Len(state.entries) :
          state.entries[i] = recorded[Len(recorded) - i + 1]

\* more than 200 entries were recorded and the oldest were dropped
C1_Witness ==
    /\ Len(recorded) = EntryCap + 2
    /\ Len(state.entries) = EntryCap
    /\ state.entries[EntryCap] = recorded[3]

\* C2: in every reachable state the Document has at most 200 entries.
C2_EntriesCapped == Len(state.entries) <= EntryCap

\* C3 as stated: recordEntry followed immediately by undoLast gives back the
\* Document that recordEntry started from, whatever its number of entries.
C3_UndoRestores ==
    [][(lastOp = "recordEntry" /\ ops' = Append(ops, "undoLast")) => state' = prev]_vars

\* C3 amended: lockables and prefs are given back; entries is given back when
\* the Document held fewer than 200 entries, and otherwise comes back without
\* its oldest entry (its first 199 entries).
C3_UndoRestoresBelowCap ==
    [][(lastOp = "recordEntry" /\ ops' = Append(ops, "undoLast")) =>
          /\ state'.lockables = prev.lockables
          /\ state'.prefs = prev.prefs
          /\ state'.entries =
                IF Len(prev.entries) < EntryCap THEN prev.entries
                ELSE SubSeq(prev.entries, 1, EntryCap - 1)]_vars

\* recordEntry then undoLast have run on a Document of 199 entries, which is back
C3_Witness ==
    /\ Len(ops) >= 2
    /\ ops[Len(ops) - 1] = "recordEntry"
    /\ ops[Len(ops)] = "undoLast"
    /\ Len(prev.entries) = EntryCap
    /\ state.entries = HistoryDoc(EntryCap - 1).entries

\* C4: a file that does not parse, or whose value lacks lockables or entries
\* as sequences, is rejected with a message and the Document stays as it was.
C4_MalformedImportRejected ==
    [][(OnloadStep /\ ~DocumentShaped(reader)) =>
          /\ state' = state
          /\ dialog' # NoDialog]_vars

\* {entries: []}-like input was rejected over a Document that is not the default
C4_Witness ==
    /\ lastOp = "onload"
    /\ dialog = "No se pudo importar: Formato invalido"
    /\ state = SavedDoc

\* C5: importing the text that exportData makes of the Document gives the
\* Document back.
C5_ExportImportRoundTrip ==
    [][(OnloadStep /\ reader = stringify(state)) => state' = state]_vars

\* the entries of a shaped file are objects or primitives, as its lockables
NoNullElement(text) ==
    /\ \A i \in 1..Len(text.value.v.lockables.v) : ~ThrowsOnGet(text.value.v.lockables.v[i])
    /\ \A j \in 1..Len(text.value.v.entries.v) : ~ThrowsOnGet(text.value.v.entries.v[j])

\* the entry's tsISO is missing or is not a valid date
BadTimestamp(e) == NewDate(Get(e, "tsISO")) = NaN

\* C6: an import does not fail over a timestamp: an entry whose tsISO is missing
\* or invalid is rebuilt with the current time.
C6_BadTimestampDefaults ==
    [][(OnloadStep /\ DocumentShaped(reader) /\ NoNullElement(reader)) =>
          /\ dialog' = NoDialog
          /\ Len(state'.entries) = Len(reader.value.v.entries.v)
          /\ \A j \in 1..Len(reader.value.v.entries.v) :
                BadTimestamp(reader.value.v.entries.v[j]) =>
                    state'.entries[j].tsISO = Str(toISOString(now))]_vars

\* C7: after a successful import, an entry whose lockableId was missing or
\* invalid refers to the first lockable of the new Document, and to 'casa'
\* only when the file has no lockables.
C7_FallbackToFirstLockable ==
    [][(OnloadStep /\ DocumentShaped(reader) /\ dialog' = NoDialog) =>
          \A j \in 1..Len(reader.value.v.entries.v) :
              ~Truthy(Get(reader.value.v.entries.v[j], "lockableId")) =>
                  state'.entries[j].lockableId =
                      IF Len(state'.lockables) > 0 THEN state'.lockables[1].id
                      ELSE Str("casa")]_vars

\* the prefs of a shaped file, and a field of them that may be absent
FilePrefs(text) == Get(text.value, "prefs")
FilePref(text, k) ==
    IF FilePrefs(text).t = "object" /\ k \in DOMAIN FilePrefs(text).v
    THEN FilePrefs(text).v[k] ELSE Undefined

\* C8: importing {lockables: [], entries: []} gives empty lockables, empty
\* entries and the default preferences; in any successful import a theme
\* outside system, light, dark becomes 'system' and suggestions that are no
\* sequence become the default list.
C8_ImportDefaults ==
    [][(OnloadStep /\ DocumentShaped(reader)) =>
          /\ reader = FileOf(<<>>, <<>>) =>
                /\ dialog' = NoDialog
                /\ state' = [lockables |-> <<>>,
                             entries |-> <<>>,
                             prefs |-> [theme |-> Str("system"),
                                        confirmNote |-> Bool(FALSE),
                                        quickNoteSuggestions |->
                                            <<Str("Sali apurado"), Str("Doble chequeo"),
                                              Str("Con alarma")>>]]
          /\ dialog' = NoDialog =>
                /\ FilePref(reader, "theme") \notin {Str("system"), Str("light"), Str("dark")}
                      => state'.prefs.theme = Str("system")
                /\ FilePref(reader, "theme") \in {Str("system"), Str("light"), Str("dark")}
                      => state'.prefs.theme = FilePref(reader, "theme")
                /\ FilePref(reader, "quickNoteSuggestions").t # "array"
                      => state'.prefs.quickNoteSuggestions = defaultState.prefs.quickNoteSuggestions
          ]_vars

\* the empty file was imported over a Document with a lockable, an entry and
\* preferences that are not the defaults
C8_Witness ==
    /\ lastOp = "onload"
    /\ dialog = NoDialog
    /\ prev = SavedDoc
    /\ state.lockables = <<>>
    /\ state.entries = <<>>
    /\ state.prefs = defaultState.prefs


\* the days of the entries, counted from the epoch, by division
DayNumber(ms) == ms \div MsPerDay
HasEntryOn(entries, day) ==
    \E i \in 1..Len(entries) :
        NewDate(entries[i].tsISO) # NaN /\ DayNumber(NewDate(entries[i].tsISO)) = day

\* C9: streak is the largest k such that each of the k days today, today-1,
\* ..., today-(k-1) has an entry (0 when today has none), and the walk ends:
\* it has counted no more days than there are days with an entry.
C9_StreakIsRunFromToday ==
    /\ streakRun.pc = "done" =>
          LET today == DayNumber(streakRun.today)
              k == streakRun.count
          IN /\ k >= 0
             /\ \A i \in 0..(k - 1) : HasEntryOn(state.entries, today - i)
             /\ ~HasEntryOn(state.entries, today - k)
    /\ streakRun.pc = "loop" =>
          /\ streakRun.count <= Cardinality(streakRun.daysWithEntry)
          /\ streakRun.date = streakRun.today - streakRun.count * MsPerDay

\* entries yesterday and the day before, none today: the streak is 0
C9_Witness ==
    /\ streakRun.pc = "done"
    /\ streakRun.count = 0
    /\ ~HasEntryOn(state.entries, DayNumber(streakRun.today))
    /\ HasEntryOn(state.entries, DayNumber(streakRun.today) - 1)
    /\ HasEntryOn(state.entries, DayNumber(streakRun.today) - 2)

\* C10: every shareLast ends with something the user sees: an alert or the
\* host's share sheet.
C10_ShareNeverSilent ==
    shareRun.pc = "done" => shareRun.outcome \in {"alert", "shared"}

\* the step in which the worker's fetch listener handled a request
FetchStep == response' # response

\* C11: only GET requests are answered by the fetch listener; an intercepted
\* request gets the cached response if there is one, else the live response,
\* else (the live fetch failed) the cached index document; whatever the cache
\* storage holds, the page never gets a network error for a failed fetch
C11_FetchDegradesToIndex ==
    [][FetchStep =>
        LET r == response'
            req == r.request
        IN IF req.method # "GET" THEN r.kind = "untouched"
           ELSE IF CachesMatch(caches, req.url) THEN r.kind = "cache" /\ r.url = req.url
           ELSE IF r.online THEN r.kind = "network" /\ r.url = req.url
           ELSE r.kind = "cache" /\ r.url = "./index.html"]_vars

\* C12: once the activate work is complete the current cache, holding every
\* asset, is the only cache alive; an install whose population failed has
\* failed, so that no worker is installed or activated on a partial cache
C12_OneFullCacheWhenActivated ==
    /\ worker.phase = "activated" =>
          DOMAIN caches = {CACHE_NAME} /\ caches[CACHE_NAME] = AssetSet
    /\ worker.phase \in {"installed", "activating"} =>
          CACHE_NAME \in DOMAIN caches /\ caches[CACHE_NAME] = AssetSet
    /\ worker.opened /\ worker.fetched # AssetSet =>
          worker.phase \in {"installing", "redundant"}
    /\ worker.phase = "redundant" =>
          worker.fetched # AssetSet /\ caches[CACHE_NAME] \in {{}, AssetSet}

\* a worker activated at its second install, after deleting two older caches
C12_Witness ==
    /\ worker.phase = "activated"
    /\ worker.installs = 2
    /\ worker.deleted = OldCaches
    /\ DOMAIN caches = {CACHE_NAME}

\* what the claim says a call of addLockable with these answers does
AddLockableExpected(name, icon, color, id) ==
    IF ~Truthy(name) \/ ~Truthy(icon) THEN state' = state
    ELSE state' = [state EXCEPT !.lockables =
                      Append(@, Lockable(Str(id), name, icon,
                                         IF Truthy(color) THEN color ELSE Str(PresetColor)))]

\* C13: addLockable leaves the Document unchanged when the name or the icon is
\* empty or cancelled; otherwise it appends one Lockable at the end, whose color
\* is the answered hex, or the preset hex when the color prompt is left empty
\* or cancelled
C13_AddLockableDefaultsColor ==
    [][\A name \in NameAnswers, icon \in IconAnswers, color \in ColorAnswers, id \in Uids :
          addLockable(name, icon, color, id) => AddLockableExpected(name, icon, color, id)]_vars

\* no handler is running and no callback is pending
Quiescent == reader = NoFile /\ queue = <<>> /\ shareRun.pc \in {"idle", "done"}

\* C14: after every mutation of the Document the whole Document is written to
\* the storage: once the application is quiescent again the persisted copy
\* equals the Document in memory, also when the storage write failed
C14_PersistedEqualsMemory ==
    [][state' # state /\ Quiescent' => stored' = stringify(state')]_vars

\* the stored text is missing or is text JSON.parse rejects
Unusable(text) == text.kind = "none" \/ ParseThrows(text)

\* C15: the application starts on the default Document when the stored text is
\* missing or corrupt and, for every stored value, on a Document that has
\* lockables, entries and prefs, without a fatal fault
C15_StartupIsUsable ==
    /\ ~AppThrows(state)
    /\ DOMAIN state = {"lockables", "entries", "prefs"}
    /\ ops = <<>> /\ Unusable(stored) => state = defaultState

\* the text without the spaces around it
TermOf(text) ==
    LET at == {i \in 1..Len(text) : CharAt(text, i) # " "}
    IN IF at = {} THEN ""
       ELSE SubSeq(text, CHOOSE i \in at : \A j \in at : i <= j,
                         CHOOSE i \in at : \A j \in at : j <= i)

\* hay contains needle, the letters compared without regard to case
ContainsNoCase(hay, needle) ==
    \E from \in 0..(Len(hay) - Len(needle)) :
        \A j \in 1..Len(needle) :
            LowerChar(CharAt(hay, from + j)) = LowerChar(CharAt(needle, j))

\* the i-th entry matches the term through the name of its lockable (the first
\* lockable of that id) or through its note
Matches(doc, i, term) ==
    LET e == doc.entries[i]
        named == {k \in 1..Len(doc.lockables) : doc.lockables[k].id = e.lockableId}
    IN \/ /\ named # {}
          /\ ContainsNoCase(doc.lockables[CHOOSE k \in named : \A l \in named : k <= l].name.v,
                            term)
       \/ /\ e.note.t = "string"
          /\ ContainsNoCase(e.note.v, term)

\* C16: filteredEntries is the subsequence, in the original order, of exactly
\* the entries whose lockable's name or whose note contains the trimmed term,
\* case-insensitively; all of the entries when the trimmed term is empty; an
\* entry whose lockable does not exist matches through its note only
C16_FilterIsMatchingSubsequence ==
    LET term == TermOf(filter)
        shown == filteredEntries(state, filter)
        kept == IF term = "" THEN 1..Len(state.entries)
                ELSE {i \in 1..Len(state.entries) : Matches(state, i, term)}
    IN /\ Len(shown) = Cardinality(kept)
       /\ \A n \in 1..Len(shown) :
             shown[n] = state.entries[CHOOSE i \in kept : Cardinality({j \in kept : j <= i}) = n]

\* a term typed with capitals and spaces that keeps some entries, one of them
\* through its note alone, and drops others, after a handler has run
C16_Witness ==
    LET shown == filteredEntries(state, filter)
    IN /\ filter = " Casa "
       /\ ops # <<>>
       /\ Len(shown) >= 2
       /\ Len(shown) < Len(state.entries)
       /\ \E n \in 1..Len(shown) : FindLockable(state, shown[n].lockableId) = Undefined
       /\ \E n \in 1..Len(shown) : shown[n].note = Undefined

\* the Document after the first k updaters of the queue
Stage(k) == Process(state, SubSeq(queue, 1, k))

IsPrefix(s, t) == Len(s) <= Len(t) /\ SubSeq(t, 1, Len(s)) = s

\* what one mutation may change, from the Document it is applied to
Frame(op, before, after) ==
    CASE op = "recordEntry" ->
            after.lockables = before.lockables /\ after.prefs = before.prefs
      [] op = "undoLast" ->
            /\ after.lockables = before.lockables /\ after.prefs = before.prefs
            /\ Len(before.entries) = 0 => after = before
      [] op = "addLockable" ->
            /\ after.entries = before.entries /\ after.prefs = before.prefs
            /\ Len(after.lockables) = Len(before.lockables) + 1
            /\ IsPrefix(before.lockables, after.lockables)
      [] op = "updateTheme" ->
            /\ after.lockables = before.lockables /\ after.entries = before.entries
            /\ after.prefs.confirmNote = before.prefs.confirmNote
            /\ after.prefs.quickNoteSuggestions = before.prefs.quickNoteSuggestions

\* C17: each mutation touches only its own field (recordEntry and undoLast the
\* entries, addLockable the end of lockables, updateTheme prefs.theme), undoLast
\* on empty entries changes nothing, and so lockables only grows by appending
C17_MutationsKeepTheirFrame ==
    /\ \A k \in 1..Len(queue) : Frame(queue[k].op, Stage(k - 1), Stage(k))
    /\ IsPrefix(state.lockables, Stage(Len(queue)).lockables)
    /\ IsPrefix(prev.lockables, state.lockables)

\* three calls are queued: an undoLast that finds the entries empty (the undo
\* before it took the last entry), and an addLockable
C17_Witness ==
    /\ Len(queue) = 3
    /\ \E k \in 1..Len(queue) : queue[k].op = "undoLast" /\ Len(Stage(k - 1).entries) = 0
    /\ \E k \in 1..Len(queue) : queue[k].op = "addLockable"

\* the step in which the queued updaters are processed
RenderStep == Len(queue) # 0 /\ Len(queue') = 0

\* the places of the queue that hold a call of the handler
Calls(op) == {k \in 1..Len(queue) : queue[k].op = op}

\* the n-th smallest member of a set of numbers
Nth(S, n) == CHOOSE i \in S : Cardinality({j \in S : j <= i}) = n

RECURSIVE Height(_, _)
\* how many entries there are after the calls: one more, up to the cap, for a
\* recordEntry, one fewer, down to none, for an undoLast
Height(h, updates) ==
    IF Len(updates) = 0 THEN h
    ELSE LET op == Head(updates).op
         IN Height(IF op = "recordEntry" THEN Min(h + 1, EntryCap)
                   ELSE IF op = "undoLast" /\ h > 0 THEN h - 1
                   ELSE h,
                   Tail(updates))

\* C18: the k handler calls issued from one render all take effect, in issue
\* order, each on the latest Document: every lockable added is there, in order;
\* the theme is the one of the last updateTheme; k recordEntry calls on m
\* entries leave min(m + k, 200) entries, newest first; k undoLast calls drop
\* the first min(k, m) entries
C18_NoCallIsLost ==
    [][RenderStep =>
        LET k == Len(queue)
            m == Len(state.entries)
            added == Calls("addLockable")
            themes == Calls("updateTheme")
        IN /\ Len(state'.lockables) = Len(state.lockables) + Cardinality(added)
           /\ \A n \in 1..Cardinality(added) :
                 state'.lockables[Len(state.lockables) + n] = queue[Nth(added, n)].arg
           /\ themes # {} =>
                 state'.prefs.theme = Str(queue[Nth(themes, Cardinality(themes))].arg)
           /\ Len(state'.entries) = Height(m, queue)
           /\ Calls("recordEntry") = 1..k =>
                 /\ Len(state'.entries) = Min(m + k, EntryCap)
                 /\ \A j \in 1..k : state'.entries[j] = queue[k + 1 - j].arg
           /\ Calls("undoLast") = 1..k =>
                 state'.entries = SubSeq(state.entries, Min(k, m) + 1, m)]_vars

\* three recordEntry calls of the first render have been processed together
C18_Witness ==
    /\ Len(queue) = 0
    /\ ops = <<"recordEntry", "recordEntry", "recordEntry">>
    /\ Len(prev.entries) = 0
    /\ Len(state.entries) = 3

\* C19: handlers may run while the file is read; when the read completes and
\* the file is accepted the Document becomes the Document rebuilt from the
\* file, the generated ids and the clock, whatever the Document was and
\* whatever ran in between; when the file is rejected the Document, with the
\* effects of what ran in between, stays
C19_ImportReplacesOrRetains ==
    [][OnloadStep =>
        IF \E gen \in Draws(UidCalls(reader)) : ImportOutcome(reader, gen, now).ok
        THEN \E gen \in Draws(UidCalls(reader)) :
                 /\ state' = ImportOutcome(reader, gen, now).doc
                 /\ stored' = stringify(ImportOutcome(reader, gen, now).doc)
        ELSE state' = state /\ stored' = stored]_vars

\* a file was accepted after two handlers had changed the Document while it
\* was read
C19_Witness ==
    /\ ops = <<"importData", "recordEntry", "addLockable", "onload">>
    /\ dialog = NoDialog
    /\ prev # state
    /\ Len(prev.entries) = 1
    /\ Len(prev.lockables) = 4

====
